---- MODULE Spec2Model ----
(***************************************************************************)
(* A model of p4utils/p4run.py: the AppRunner class.                       *)
(*                                                                         *)
(* Python dicts are functions whose DOMAIN is a set of strings; a dict     *)
(* that keeps insertion order and is iterated (the switches map) is a      *)
(* sequence of [name, params] entries with distinct names.  In-place       *)
(* mutation of an object that is reachable from two places (the raw        *)
(* configuration and the record under construction) is written out on      *)
(* both places.  A raised exception is an "error" field that carries the   *)
(* exception's name; "None" means no exception.                            *)
(***************************************************************************)
EXTENDS Integers, Sequences, FiniteSets, TLC

VARIABLES
    raw,         \* the configuration document as load_conf returned it
    conf,        \* self.conf: the same document, as mutated in place since
    cli_enabled, \* self.cli_enabled: the constructor argument
    empty_p4,    \* the constructor argument empty_p4
    modules,     \* self.compiler_module and self.controller_module
    pc,          \* position of the process in __init__ / run_app
    error,       \* name of the exception that ended the process, or "None"
    hosts,       \* self.hosts
    switches,    \* self.switches: sequence of [name, params]
    links,       \* self.links
    compilers,   \* self.compilers
    topo,        \* self.topo: the handle the topology builder returned
    net,         \* self.net: "none", "created", "started" or "stopped"
    controllers, \* self.controllers
    calls,       \* the calls made to external collaborators, in order
    phases,      \* history: the phases of run_app entered so far, in order
    again,       \* results of resolutions requested after construction
    objects      \* history: the identities of the objects the records of
                 \* self.switches are made of, and of the objects written to

vars == <<raw, conf, cli_enabled, empty_p4, modules, pc, error, hosts, switches, links, compilers,
          topo, net, controllers, calls, phases, again, objects>>

(***************************************************************************)
(* Bounds of the model.                                                    *)
(***************************************************************************)
MaxSwitches == 3
MaxLinks == 2
MaxRunSwitches == 2
MaxScripts == 2
MaxResolutions == 1

(***************************************************************************)
(* Python values.                                                          *)
(***************************************************************************)
EmptyDict == [k \in {} |-> TRUE]
Has(d, k) == k \in DOMAIN d
Put(d, k, v) == [x \in DOMAIN d \cup {k} |-> IF x = k THEN v ELSE d[x]]
\* dict.update(e): every key of e replaces or extends d, one level deep
Update(d, e) == [x \in DOMAIN d \cup DOMAIN e |-> IF x \in DOMAIN e THEN e[x] ELSE d[x]]
\* dict.setdefault(k, v)
SetDefault(d, k, v) == IF Has(d, k) THEN d ELSE Put(d, k, v)
\* An optional number: None is the empty tuple, the number n is <<n>>.
None == <<>>
Num(n) == <<n>>
Max(a, b) == IF a >= b THEN a ELSE b
Range(s) == {s[i] : i \in DOMAIN s}

\* Sequences over S of length at most n, and those without repetition
SeqsUpTo(S, n) == UNION {[1..k -> S] : k \in 0..n}

(***************************************************************************)
(* Collaborators imported by p4run.py.                                     *)
(***************************************************************************)
DEFAULT_SWITCH == [class |-> "P4RuntimeSwitch"]
DEFAULT_CONTROLLER == [class |-> "ThriftController"]
DEFAULT_COMPILER == [class |-> "P4C"]

\* A component locator names a module and an object of it.
IsLocator(obj) == Has(obj, "module_name") /\ Has(obj, "object_name")
\* helper.load_custom_object: the object the locator names; anything that is
\* not a locator cannot be loaded.
load_custom_object(obj) ==
    IF IsLocator(obj)
    THEN [error |-> "None", value |-> [class |-> obj.object_name]]
    ELSE [error |-> "ComponentLoadError", value |-> obj]

\* os.path.realpath on the program paths of the model
realpath(p) ==
    CASE p = "a.p4" -> "/abs/a.p4"
      [] p = "./a.p4" -> "/abs/a.p4"
      [] p = "b.p4" -> "/abs/b.p4"
      [] p = "bad.p4" -> "/abs/bad.p4"
      [] p = "empty_program.p4" -> "/abs/empty_program.p4"
      [] OTHER -> "/abs/p.p4"

(***************************************************************************)
(* AppRunner.__init__: the attributes parse_switches reads.                *)
(***************************************************************************)
log_dir == "log"
pcap_dir == "pcap"
log_enabled(c) == IF Has(c, "enable_log") THEN c.enable_log ELSE FALSE
pcap_dump(c) == IF Has(c, "pcap_dump") THEN c.pcap_dump ELSE FALSE
\* self.switch_node when the configuration has no switch_node section
switch_node == DEFAULT_SWITCH
default_controller_kwargs == [log_enabled |-> TRUE, log_dir |-> log_dir]
\* self.controller_module when the configuration has no controller_module section
controller_module == [module |-> DEFAULT_CONTROLLER, kwargs |-> default_controller_kwargs]

\* a module section of the configuration; one that is absent or empty is
\* not taken
section(c, key) == IF Has(c, key) THEN c[key] ELSE EmptyDict
options(sec, default) == IF Has(sec, "options") THEN sec.options ELSE default

\* the module of a section that names an object, with the section's options
custom_module(loaded, kwargs) ==
    [error |-> loaded.error, value |-> [module |-> loaded.value, kwargs |-> kwargs]]

\* self.compiler_module: [error, value]
self_compiler_module(c) ==
    IF section(c, "compiler_module") = EmptyDict
    THEN [error |-> "None", value |-> [module |-> DEFAULT_COMPILER, kwargs |-> EmptyDict]]
    ELSE IF Has(section(c, "compiler_module"), "object_name")
    THEN custom_module(load_custom_object(section(c, "compiler_module")),
                       options(section(c, "compiler_module"), EmptyDict))
    ELSE [error |-> "None",
          value |-> [module |-> DEFAULT_COMPILER,
                     kwargs |-> options(section(c, "compiler_module"), EmptyDict)]]

\* AppRunner has no attribute "controlle_module", the name the built-in
\* controller is assigned through when the section names no object
has_controlle_module == FALSE

\* self.controller_module: [error, value]
self_controller_module(c) ==
    IF section(c, "controller_module") = EmptyDict
    THEN [error |-> "None", value |-> controller_module]
    ELSE IF Has(section(c, "controller_module"), "object_name")
    THEN custom_module(load_custom_object(section(c, "controller_module")),
                       options(section(c, "controller_module"), default_controller_kwargs))
    ELSE IF ~has_controlle_module
    THEN [error |-> "AttributeError", value |-> EmptyDict]
    ELSE [error |-> "None",
          value |-> [kwargs |-> options(section(c, "controller_module"),
                                        default_controller_kwargs)]]

(***************************************************************************)
(* AppRunner.parse_switches                                                *)
(***************************************************************************)
next_thrift_port0 == 9090
next_grpc_port0 == 9559

\* the general default options of a switch
switch_default(c) ==
    [program |-> c.program,
     cpu_port |-> TRUE,
     switch_node |-> switch_node,
     controller_module |-> self_controller_module(c).value,
     opts |-> [pcap_dump |-> pcap_dump(c), pcap_dir |-> pcap_dir,
               log_enabled |-> log_enabled(c)]]

\* the advance of a port counter past the port a switch has received
next_port(next, port) == Max(next + 1, port)

\* params = deepcopy(default) with the switch specific and the controller
\* default options set from the two counters
switch_params(default, switch, next_thrift_port, next_grpc_port) ==
    [default EXCEPT
       !.opts = Put(Put(@, "thrift_port", next_thrift_port),
                    "grpc_port", next_grpc_port),
       !.controller_module.kwargs =
           Put(Put(Put(@, "sw_name", switch), "thrift_port", next_thrift_port),
               "grpc_port", next_grpc_port)]

\* custom_params['switch_node'] = load_custom_object(custom_params['switch_node'])
load_switch_node(custom_params, loaded) ==
    IF loaded.error = "None"
    THEN [error |-> "None", custom_params |-> Put(custom_params, "switch_node", loaded.value)]
    ELSE [error |-> loaded.error, custom_params |-> custom_params]

set_switch_node(custom_params) ==
    IF Has(custom_params, "switch_node")
    THEN load_switch_node(custom_params, load_custom_object(custom_params.switch_node))
    ELSE [error |-> "None", custom_params |-> custom_params]

\* custom_params['controller_module']['module'] = load_custom_object(...)
load_controller_module(custom_params, loaded) ==
    IF loaded.error = "None"
    THEN [error |-> "None",
          custom_params |-> [custom_params EXCEPT
                               !.controller_module = Put(@, "module", loaded.value)]]
    ELSE [error |-> loaded.error, custom_params |-> custom_params]

set_controller_module(custom_params) ==
    IF Has(custom_params, "controller_module")
    THEN load_controller_module(custom_params,
                                load_custom_object(custom_params.controller_module))
    ELSE [error |-> "None", custom_params |-> custom_params]

\* params.update(custom_params): one level deep, a key of custom_params
\* replaces the whole value the default holds under it
update_params(params, custom_params) == Update(params, custom_params)

\* params['opts']['cls'] = params['switch_node'], on the updated params
set_cls(params) == [params EXCEPT !.opts = Put(@, "cls", params.switch_node)]

\* the same assignment seen from custom_params: when the switch gives opts,
\* params['opts'] is custom_params['opts'] itself
set_cls_custom(params, custom_params) ==
    IF Has(custom_params, "opts")
    THEN [custom_params EXCEPT !.opts = Put(@, "cls", params.switch_node)]
    ELSE custom_params

\* the update of the two counters, which reads the ports of the record
update_ports(params, custom_params, next_thrift_port, next_grpc_port) ==
    IF ~Has(params.opts, "thrift_port") \/ ~Has(params.opts, "grpc_port")
    THEN [error |-> "KeyError", params |-> params, custom_params |-> custom_params,
          next_thrift_port |-> next_thrift_port, next_grpc_port |-> next_grpc_port]
    ELSE [error |-> "None", params |-> params, custom_params |-> custom_params,
          next_thrift_port |-> next_port(next_thrift_port, params.opts.thrift_port),
          next_grpc_port |-> next_port(next_grpc_port, params.opts.grpc_port)]

load_failed(e, params, custom_params, next_thrift_port, next_grpc_port) ==
    [error |-> e, params |-> params, custom_params |-> custom_params,
     next_thrift_port |-> next_thrift_port, next_grpc_port |-> next_grpc_port]

merge_switch(params, custom_params, next_thrift_port, next_grpc_port) ==
    update_ports(set_cls(params), set_cls_custom(params, custom_params),
                 next_thrift_port, next_grpc_port)

parse_switch_controller(params, cm, next_thrift_port, next_grpc_port) ==
    IF cm.error # "None"
    THEN load_failed(cm.error, params, cm.custom_params, next_thrift_port, next_grpc_port)
    ELSE merge_switch(update_params(params, cm.custom_params), cm.custom_params,
                      next_thrift_port, next_grpc_port)

parse_switch_node(params, sn, next_thrift_port, next_grpc_port) ==
    IF sn.error # "None"
    THEN load_failed(sn.error, params, sn.custom_params, next_thrift_port, next_grpc_port)
    ELSE parse_switch_controller(params, set_controller_module(sn.custom_params),
                                 next_thrift_port, next_grpc_port)

\* One iteration of the loop over unparsed_switches.items(): the record of
\* the switch, the custom_params as the iteration leaves them (they are
\* mutated in place), the counters after it, and the exception raised.
parse_switch(default, switch, custom_params, next_thrift_port, next_grpc_port) ==
    parse_switch_node(switch_params(default, switch, next_thrift_port, next_grpc_port),
                      set_switch_node(custom_params), next_thrift_port, next_grpc_port)

\* The loop of parse_switches from entry i on.  acc: the switches resolved so
\* far, the two counters, and unparsed_switches as mutated so far.
RECURSIVE parse_switches_from(_, _, _)
RECURSIVE parse_switches_next(_, _, _, _)
parse_switches_next(default, i, acc, r) ==
    IF r.error # "None"
    THEN [acc EXCEPT !.error = r.error, !.unparsed[i].params = r.custom_params]
    ELSE parse_switches_from(default, i + 1,
             [error |-> "None",
              switches |-> Append(acc.switches,
                                  [name |-> acc.unparsed[i].name, params |-> r.params]),
              next_thrift_port |-> r.next_thrift_port,
              next_grpc_port |-> r.next_grpc_port,
              unparsed |-> [acc.unparsed EXCEPT ![i].params = r.custom_params]])

parse_switches_from(default, i, acc) ==
    IF i > Len(acc.unparsed) THEN acc
    ELSE parse_switches_next(default, i, acc,
             parse_switch(default, acc.unparsed[i].name, acc.unparsed[i].params,
                          acc.next_thrift_port, acc.next_grpc_port))

\* parse_switches(unparsed_switches) on the runner whose configuration is c:
\* [error, switches, unparsed] (the value returned when error is "None", and
\* unparsed_switches as the call leaves it)
parse_switches(c, unparsed_switches) ==
    parse_switches_from(switch_default(c), 1,
        [error |-> "None", switches |-> <<>>,
         next_thrift_port |-> next_thrift_port0,
         next_grpc_port |-> next_grpc_port0,
         unparsed |-> unparsed_switches])

(***************************************************************************)
(* The objects parse_switches makes the records of.  An object is known by *)
(* <<owner, index, part>>: the part "params" is a dict of switch settings, *)
(* "opts" and "controller_module" are the dicts it holds under these keys, *)
(* and "kwargs" is the option bag the controller_module holds.             *)
(***************************************************************************)
\* self.controller_module and its option bag
self_objects ==
    [controller_module |-> <<"self", 0, "controller_module">>,
     kwargs |-> <<"self", 0, "kwargs">>]

\* default = {...}: a new dict with a new opts; its controller_module is
\* self.controller_module itself
default_objects ==
    [params |-> <<"default", 0, "params">>,
     opts |-> <<"default", 0, "opts">>,
     controller_module |-> self_objects.controller_module,
     kwargs |-> self_objects.kwargs]

\* no copy made: the objects are the same
deepcopy_none(objs, owner, i) == objs

\* deepcopy(...): every object of the copy is a new one
deepcopy(objs, owner, i) == [part \in DOMAIN objs |-> <<owner, i, part>>]

\* params.update(custom_params): the values of custom_params are not copied
update_objects(objs, custom_params, i) ==
    [objs EXCEPT
       !.opts = IF Has(custom_params, "opts") THEN <<"raw", i, "opts">> ELSE @,
       !.controller_module =
           IF Has(custom_params, "controller_module")
           THEN <<"raw", i, "controller_module">> ELSE @,
       !.kwargs =
           IF Has(custom_params, "controller_module") THEN <<"raw", i, "kwargs">> ELSE @]

\* the objects an iteration assigns into: opts and kwargs of params before
\* the update (the ports and sw_name), opts after it (cls)
switch_written(params_objs, custom_params, i) ==
    {params_objs.opts, params_objs.kwargs,
     update_objects(params_objs, custom_params, i).opts}

\* switches[switch] = deepcopy(params)
switch_record(params_objs, custom_params, i) ==
    deepcopy(update_objects(params_objs, custom_params, i), "record", i)

\* the records parse_switches returns for unparsed_switches, and the objects
\* its iterations have written to; params = deepcopy(default) in each
parse_switches_objects(unparsed_switches) ==
    [records |->
        [i \in DOMAIN unparsed_switches |->
            switch_record(deepcopy(default_objects, "params", i),
                          unparsed_switches[i].params, i)],
     written |->
        UNION {switch_written(deepcopy(default_objects, "params", i),
                              unparsed_switches[i].params, i) :
                   i \in DOMAIN unparsed_switches}]

(***************************************************************************)
(* AppRunner.parse_links                                                   *)
(***************************************************************************)
\* the per-topology default bag after the five setdefault calls
links_default(topology) ==
    LET d0 == IF Has(topology, "default") THEN topology.default ELSE EmptyDict
    IN  SetDefault(SetDefault(SetDefault(SetDefault(SetDefault(d0,
            "weight", Num(1)), "bw", None), "delay", None), "loss", None),
            "max_queue_size", None)

\* the update the wrong way round: the default bag overwrites the link's bag
link_opts_default_wins(default, link) ==
    IF Len(link) > 2 THEN Update(link[3], default) ELSE default

\* the options of one link: a copy of the default bag updated by the link's own bag
link_opts(default, link) ==
    IF Len(link) > 2 THEN Update(default, link[3]) ELSE default

\* the assertion left out
link_allowed_unchecked(hs, link) == TRUE

\* the assertion of parse_links: a host is not connected to another host
link_allowed(hs, link) == ~(link[1] \in DOMAIN hs /\ link[2] \in DOMAIN hs)

RECURSIVE parse_links_from(_, _, _, _, _)
parse_links_from(default, hs, unparsed_links, i, acc) ==
    IF i > Len(unparsed_links) THEN [error |-> "None", links |-> acc]
    ELSE IF ~link_allowed(hs, unparsed_links[i])
    THEN [error |-> "AssertionError", links |-> acc]
    ELSE parse_links_from(default, hs, unparsed_links, i + 1,
             Append(acc, <<unparsed_links[i][1], unparsed_links[i][2],
                           link_opts(default, unparsed_links[i])>>))

\* the topology object after parse_links: a default bag it holds has gained
\* the defaults
topology_after_links(topology) ==
    IF Has(topology, "default")
    THEN [topology EXCEPT !.default = links_default(topology)]
    ELSE topology

\* parse_links(unparsed_links) with self.hosts = hs: [error, links]
parse_links(topology, hs, unparsed_links) ==
    parse_links_from(links_default(topology), hs, unparsed_links, 1, <<>>)

(***************************************************************************)
(* AppRunner.run_app: its statements in order.  pc names the statement the *)
(* process is at.                                                          *)
(***************************************************************************)
\* the statements with the two provisioning calls exchanged
run_app_switches_first ==
    <<"compile_p4", "create_network", "net_start", "program_switches",
      "program_hosts", "exec_scripts", "do_net_cli", "net_stop">>

run_app ==
    <<"compile_p4", "create_network", "net_start", "program_hosts",
      "program_switches", "exec_scripts", "do_net_cli", "net_stop">>

\* the statement after stmt, "done" after the last one
following(stmt) ==
    LET i == CHOOSE k \in DOMAIN run_app : run_app[k] = stmt
    IN  IF i = Len(run_app) THEN "done" ELSE run_app[i + 1]

(***************************************************************************)
(* The configurations the model starts from.                               *)
(***************************************************************************)
SwitchNames == <<"s1", "s2", "s3", "s4", "s5">>
CustomSwitch == [module_name |-> "my_switch", object_name |-> "MySwitch"]
CustomController == [module_name |-> "my_controller", object_name |-> "MyController"]
ExplicitThrift == {9091, 9100}
ExplicitGrpc == {9559, 9570}

\* the "opts" a switch may give
CustomOpts ==
    {EmptyDict}
    \cup {[thrift_port |-> t] : t \in ExplicitThrift}
    \cup {[grpc_port |-> g] : g \in {9570}}
    \cup {[sw_bin |-> "simple_switch"]}
    \cup {[thrift_port |-> t, grpc_port |-> g] : t \in ExplicitThrift, g \in ExplicitGrpc}

\* the per-switch settings of the resolution runs
CustomParams ==
    {EmptyDict}
    \cup {[opts |-> o] : o \in CustomOpts}
    \cup {[switch_node |-> CustomSwitch]}
    \cup {[controller_module |-> CustomController]}
    \cup {[controller_module |-> Put(CustomController, "kwargs", [log_enabled |-> FALSE])]}
    \cup {[program |-> "a.p4", cpu_port |-> FALSE]}

\* the per-switch settings of the full runs
RunParams ==
    {EmptyDict}
    \cup {[program |-> "a.p4"]}
    \cup {[program |-> "./a.p4", cli_input |-> "s-commands.txt"]}
    \cup {[program |-> "b.p4"]}
    \cup {[program |-> "bad.p4"]}
    \cup {[cli_input |-> "bad-commands.txt"]}
    \cup {[controller_module |-> CustomController, cli_input |-> "s-commands.txt"]}
    \cup {[opts |-> [thrift_port |-> 9100, grpc_port |-> 9570]]}

\* a switches map: the names s1, s2, ... in declaration order
SwitchesMap(f) == [i \in DOMAIN f |-> [name |-> SwitchNames[i], params |-> f[i]]]

HostsMap == [h1 |-> EmptyDict, h2 |-> EmptyDict]
\* three hosts: two ask for a dynamic address, one declares commands too
HostsMap3 ==
    [h1 |-> EmptyDict, h2 |-> [auto |-> TRUE],
     h3 |-> [auto |-> TRUE, commands |-> <<"ping", "iperf">>]]

LinkBags == {EmptyDict, [bw |-> Num(10)], [weight |-> Num(5), delay |-> Num(3)]}
LinkEnds == {<<"h1", "s1">>, <<"s1", "h2">>, <<"h1", "h2">>, <<"h2", "h1">>, <<"s1", "s2">>}
RawLinks == LinkEnds \cup {<<e[1], e[2], b>> : e \in LinkEnds, b \in LinkBags}
LinkDefaults == {EmptyDict, [weight |-> Num(2)], [bw |-> Num(7), auto_arp_tables |-> FALSE]}
RunLinks ==
    {<<<<"h1", "s1">>, <<"s1", "h2", [bw |-> Num(10)]>>>>,
     <<<<"s1", "h1">>>>,
     <<<<"h1", "s1">>, <<"h2", "h1">>>>,
     <<<<"h1", "h2", EmptyDict>>>>,
     <<<<"s1", "h2">>>>}
\* the links of the three hosts, and the per-topology default bags of the runs
RunLinks3 == {<<<<"h1", "s1">>, <<"s1", "h2">>, <<"h3", "s1">>>>}
RunDefaults == {EmptyDict, [auto_arp_tables |-> FALSE], [auto_gw_arp |-> FALSE]}

Topology(sw, ls) ==
    [assignment_strategy |-> "l2", hosts |-> HostsMap, switches |-> sw, links |-> ls]

Topology3(sw, ls) == [Topology(sw, ls) EXCEPT !.hosts = HostsMap3]

Conf(topology) == [program |-> "p.p4", topology |-> topology]

TypeOK ==
    /\ pc \in {"init", "done", "failed"} \cup Range(run_app)
    /\ error \in {"None", "Exception", "KeyError", "AssertionError",
                  "ComponentLoadError", "AttributeError", "CompilationError",
                  "TopologyError", "NetworkError", "IndexError",
                  "SwitchConfigurationError"}
    /\ net \in {"none", "created", "started", "stopped"}
    /\ cli_enabled \in BOOLEAN
    /\ empty_p4 \in BOOLEAN

\* the state before AppRunner(conf_file, cli_enabled=cli, empty_p4=empty) is
\* called on a file that holds configuration c
StartWith(c, cli, empty) ==
    /\ raw = c
    /\ conf = c
    /\ cli_enabled = cli
    /\ empty_p4 = empty
    /\ modules = [compiler_module |-> EmptyDict, controller_module |-> EmptyDict]
    /\ pc = "init"
    /\ error = "None"
    /\ hosts = EmptyDict
    /\ switches = <<>>
    /\ links = <<>>
    /\ compilers = <<>>
    /\ topo = EmptyDict
    /\ net = "none"
    /\ controllers = <<>>
    /\ calls = <<>>
    /\ phases = <<>>
    /\ again = <<>>
    /\ objects = [records |-> <<>>, written |-> {}]

Start(c, cli) == StartWith(c, cli, FALSE)

\* resolution runs: the switches vary
InitSwitches ==
    \E f \in SeqsUpTo(CustomParams, MaxSwitches) :
        Start(Conf(Topology(SwitchesMap(f), <<>>)), TRUE)

\* resolution runs: the links and the per-topology default bag vary
InitLinks ==
    \E ls \in SeqsUpTo(RawLinks, MaxLinks) :
        \/ Start(Conf(Topology(SwitchesMap(<<EmptyDict>>), ls)), TRUE)
        \/ \E d \in LinkDefaults :
               Start(Conf(Put(Topology(SwitchesMap(<<EmptyDict>>), ls), "default", d)), TRUE)

(***************************************************************************)
(* AppRunner.__init__                                                      *)
(***************************************************************************)
\* the import of the topology components: self.hosts, then parse_switches,
\* then parse_links; the first exception ends it
load_links(c, sw, ln) ==
    [error |-> ln.error, hosts |-> c.topology.hosts, switches |-> sw.switches,
     links |-> IF ln.error = "None" THEN ln.links ELSE <<>>,
     conf |-> [c EXCEPT !.topology =
                 topology_after_links([c.topology EXCEPT !.switches = sw.unparsed])]]

load_switches(c, sw) ==
    IF sw.error # "None"
    THEN [error |-> sw.error, hosts |-> c.topology.hosts, switches |-> <<>>,
          links |-> <<>>, conf |-> [c EXCEPT !.topology.switches = sw.unparsed]]
    ELSE load_links(c, sw, parse_links(c.topology, c.topology.hosts, c.topology.links))

load_topology(c) == load_switches(c, parse_switches(c, c.topology.switches))

\* self.switches is assigned when parse_switches has returned
Imported(r) ==
    /\ objects' = IF Len(r.switches) = Len(conf.topology.switches)
                  THEN parse_switches_objects(conf.topology.switches)
                  ELSE objects
    /\ conf' = r.conf
    /\ hosts' = r.hosts
    /\ switches' = r.switches
    /\ links' = r.links
    /\ error' = r.error
    /\ pc' = IF r.error = "None" THEN run_app[1] ELSE "failed"

\* the failure of __init__ before any topology component is imported
Aborted(e) ==
    /\ error' = e
    /\ pc' = "failed"
    /\ UNCHANGED <<hosts, switches, links, objects>>

\* Override custom switch programs with empty program
empty_program == "empty_program.p4"
set_empty_program(c) ==
    [Put(c, "program", empty_program) EXCEPT
       !.topology.switches =
           [i \in DOMAIN @ |->
               IF Has(@[i].params, "program")
               THEN [@[i] EXCEPT !.params.program = empty_program]
               ELSE @[i]]]

\* __init__ from "Clean default switches" on, the modules being loaded
Cleaned(c) ==
    /\ calls' = Append(calls, <<"stop_all">>)
    /\ IF ~Has(c, "topology")
       THEN /\ conf' = c
            /\ Aborted("Exception")
       ELSE Imported(load_topology(c))

\* __init__ from the load of the modules on
Configured(c) ==
    IF self_compiler_module(c).error # "None"
    THEN /\ Aborted(self_compiler_module(c).error)
         /\ UNCHANGED <<conf, calls, modules>>
    ELSE IF self_controller_module(c).error # "None"
    THEN /\ Aborted(self_controller_module(c).error)
         /\ UNCHANGED <<conf, calls, modules>>
    ELSE /\ modules' = [compiler_module |-> self_compiler_module(c).value,
                        controller_module |-> self_controller_module(c).value]
         /\ Cleaned(c)

Construct ==
    /\ pc = "init"
    /\ IF empty_p4 /\ ~Has(conf, "topology")
       THEN /\ Aborted("KeyError")
            /\ UNCHANGED <<conf, calls, modules>>
       ELSE Configured(IF empty_p4 THEN set_empty_program(conf) ELSE conf)
    /\ UNCHANGED <<raw, cli_enabled, empty_p4, compilers, topo, net, controllers,
                   phases, again>>

Resolved(r) ==
    /\ conf' = r.conf
    /\ again' = Append(again, [error |-> r.error, switches |-> r.switches,
                               links |-> r.links])

\* parse_switches and parse_links called once more on the topology object
\* of the constructed runner
Reresolve ==
    /\ pc = run_app[1]
    /\ Len(again) < MaxResolutions
    /\ Resolved(load_topology(conf))
    /\ UNCHANGED <<raw, cli_enabled, empty_p4, modules, pc, error, hosts, switches, links, compilers,
                   topo, net, controllers, calls, phases, objects>>

NextResolve == Construct \/ Reresolve

SpecResolve == (InitSwitches \/ InitLinks) /\ [][NextResolve]_vars

(***************************************************************************)
(* The compiler, as compile_p4 uses it.                                    *)
(***************************************************************************)
\* P4C(p4_filepath=...): the compiler of one source, known by the canonical
\* path of the source
new_compiler(p4_filepath) == [p4_filepath |-> realpath(p4_filepath), compiled |-> FALSE]
\* compile() on a source that compiles
compiled(compiler) == [compiler EXCEPT !.compiled = TRUE]
\* the sources of the model: bad.p4 does not compile, b.p4 defines no
\* control-plane metadata
compile_fails(compiler) == compiler.p4_filepath = "/abs/bad.p4"
p4info_disabled(compiler) == compiler.p4_filepath = "/abs/b.p4"
get_json_out(compiler) == <<compiler.p4_filepath, "json">>
get_p4rt_out(compiler) == <<compiler.p4_filepath, "p4rt">>
\* helper.is_compiled
is_compiled(p4_filepath, comps) ==
    \E i \in DOMAIN comps : comps[i].p4_filepath = p4_filepath /\ comps[i].compiled
\* helper.get_by_attr: the first object of the list whose attribute has the value
get_by_attr(attr, val, comps) ==
    comps[CHOOSE i \in DOMAIN comps :
              /\ comps[i][attr] = val
              /\ \A j \in 1..(i - 1) : comps[j][attr] # val]

(***************************************************************************)
(* AppRunner.compile_p4                                                    *)
(***************************************************************************)
\* the test made on the path as written, not on the canonical path
needs_compile_as_written(params, comps) == ~is_compiled(params.program, comps)

\* the test that decides whether the program of a switch is compiled now
needs_compile(params, comps) == ~is_compiled(realpath(params.program), comps)

\* the assignment of json_path left out
set_json_path_skipped(params, compiler) == params

\* params['opts']['json_path'] = compiler.get_json_out()
set_json_path(params, compiler) ==
    [params EXCEPT !.opts = Put(@, "json_path", get_json_out(compiler))]

\* the path set whether the compiler has the artifact or not
set_p4rt_path_always(params, compiler) ==
    [params EXCEPT !.opts = Put(@, "p4rt_path", get_p4rt_out(compiler))]

\* params['opts']['p4rt_path'] = compiler.get_p4rt_out(), unless P4InfoDisabled
set_p4rt_path(params, compiler) ==
    IF p4info_disabled(compiler) THEN params
    ELSE [params EXCEPT !.opts = Put(@, "p4rt_path", get_p4rt_out(compiler))]

set_artifacts(params, compiler) ==
    set_p4rt_path(set_json_path(params, compiler), compiler)

\* the body of the loop for a program that is compiled now
compile_new(params, comps, compiler) ==
    IF compile_fails(compiler)
    THEN [error |-> "CompilationError", params |-> params, compilers |-> comps,
          calls |-> <<<<"compile", compiler.p4_filepath>>>>]
    ELSE [error |-> "None", params |-> set_artifacts(params, compiled(compiler)),
          compilers |-> Append(comps, compiled(compiler)),
          calls |-> <<<<"compile", compiler.p4_filepath>>>>]

\* the body of the loop over self.switches.items()
compile_switch(params, comps) ==
    IF needs_compile(params, comps)
    THEN compile_new(params, comps, new_compiler(params.program))
    ELSE [error |-> "None",
          params |-> set_artifacts(params,
                        get_by_attr("p4_filepath", realpath(params.program), comps)),
          compilers |-> comps, calls |-> <<>>]

RECURSIVE compile_from(_, _)
RECURSIVE compile_next(_, _, _)
compile_next(i, acc, r) ==
    IF r.error # "None"
    THEN [acc EXCEPT !.error = r.error, !.calls = @ \o r.calls]
    ELSE compile_from(i + 1,
             [error |-> "None",
              switches |-> [acc.switches EXCEPT ![i].params = r.params],
              compilers |-> r.compilers,
              calls |-> acc.calls \o r.calls])

compile_from(i, acc) ==
    IF i > Len(acc.switches) THEN acc
    ELSE compile_next(i, acc, compile_switch(acc.switches[i].params, acc.compilers))

\* compile_p4 on self.switches = sw: [error, switches, compilers, calls]
compile_p4(sw) ==
    compile_from(1, [error |-> "None", switches |-> sw, compilers |-> <<>>, calls |-> <<>>])

\* the exception swallowed: the next statement runs whatever happened
Finish_continues(stmt, e) ==
    /\ error' = e
    /\ pc' = following(stmt)

\* the end of a statement of run_app: the next statement, or the failure
Finish(stmt, e) ==
    /\ error' = e
    /\ pc' = IF e = "None" THEN following(stmt) ELSE "failed"

\* the loop of compile_p4 on the objects: it writes json_path and p4rt_path
\* into the opts of the record and puts a deepcopy of the record in its place
compile_objects(objs, sw) ==
    [records |->
        [i \in DOMAIN objs.records |->
            IF Has(sw[i].params.opts, "json_path")
            THEN deepcopy(objs.records[i], "compiled", i)
            ELSE objs.records[i]],
     written |->
        objs.written \cup
        {objs.records[i].opts : i \in {j \in DOMAIN objs.records :
                                          Has(sw[j].params.opts, "json_path")}}]

Compiled(r) ==
    /\ objects' = compile_objects(objects, r.switches)
    /\ switches' = r.switches
    /\ compilers' = r.compilers
    /\ calls' = calls \o r.calls
    /\ Finish("compile_p4", r.error)

CompileP4 ==
    /\ pc = "compile_p4"
    /\ phases' = Append(phases, "Compiling")
    /\ Compiled(compile_p4(switches))
    /\ UNCHANGED <<raw, conf, cli_enabled, empty_p4, modules, hosts, links, topo, net, controllers, again>>

(***************************************************************************)
(* AppRunner.create_network and self.net.start()                           *)
(***************************************************************************)
AddrBits == 8
HostNames == <<"h1", "h2", "h3">>
\* the hosts of a topology, in the order topo.hosts() gives them
topo_hosts(hs) == SelectSeq(HostNames, LAMBDA h : h \in DOMAIN hs)
\* list(h.intfs.values())[0]
h_iface(h) == <<h, "eth0">>
\* the hardware address of an interface
MacOf(iface) == <<"mac", iface>>

\* What the topology builder may assign to the hosts: address, prefix
\* length and, where the strategy routes, a default route.
Plans ==
    {[h1 |-> [ip |-> 1, mask |-> 4, defaultRoute |-> <<>>],
      h2 |-> [ip |-> 2, mask |-> 4, defaultRoute |-> <<>>],
      h3 |-> [ip |-> 33, mask |-> 4, defaultRoute |-> <<>>]],
     [h1 |-> [ip |-> 17, mask |-> 4, defaultRoute |-> <<"via", 30>>],
      h2 |-> [ip |-> 33, mask |-> 4, defaultRoute |-> <<"via", 46>>],
      h3 |-> [ip |-> 49, mask |-> 4, defaultRoute |-> <<"via", 62>>]],
     [h1 |-> [ip |-> 17, mask |-> 4, defaultRoute |-> <<"via", 30>>],
      h2 |-> [ip |-> 18, mask |-> 3, defaultRoute |-> <<>>],
      h3 |-> [ip |-> 19, mask |-> 4, defaultRoute |-> <<"via", 30>>]]}

\* self.topo = self.app_topo(hosts, switches, links, assignment_strategy)
app_topo(hs, plan) ==
    [hosts |-> topo_hosts(hs),
     hosts_info |-> [h \in DOMAIN hs |->
                        [ip |-> plan[h].ip, mask |-> plan[h].mask,
                         mac |-> MacOf(h_iface(h))]],
     params |-> [h \in DOMAIN hs |->
                    IF plan[h].defaultRoute = <<>> THEN EmptyDict
                    ELSE [defaultRoute |-> plan[h].defaultRoute]]]

CreateNetwork ==
    /\ pc = "create_network"
    /\ \E outcome \in {"None", "TopologyError", "NetworkError"}, plan \in Plans :
           /\ calls' = calls \o
                  IF outcome = "TopologyError"
                  THEN <<<<"topo", hosts, switches, links>>>>
                  ELSE <<<<"topo", hosts, switches, links>>, <<"net">>>>
           /\ phases' = phases \o
                  IF outcome = "TopologyError" THEN <<"BuildingTopology">>
                  ELSE <<"BuildingTopology", "StartingNetwork">>
           /\ topo' = IF outcome = "TopologyError" THEN topo ELSE app_topo(hosts, plan)
           /\ net' = IF outcome = "None" THEN "created" ELSE net
           /\ Finish("create_network", outcome)
    /\ UNCHANGED <<raw, conf, cli_enabled, empty_p4, modules, hosts, switches, links, compilers,
                   controllers, again, objects>>

NetStart ==
    /\ pc = "net_start"
    /\ calls' = Append(calls, <<"start">>)
    /\ \E outcome \in {"None", "NetworkError"} :
           /\ net' = IF outcome = "None" THEN "started" ELSE net
           /\ Finish("net_start", outcome)
    /\ UNCHANGED <<raw, conf, cli_enabled, empty_p4, modules, hosts, switches, links, compilers,
                   topo, controllers, phases, again, objects>>

(***************************************************************************)
(* AppRunner.program_hosts                                                 *)
(***************************************************************************)
topology_default(c) ==
    IF Has(c.topology, "default") THEN c.topology.default ELSE EmptyDict
auto_arp_tables(c) ==
    IF Has(topology_default(c), "auto_arp_tables")
    THEN topology_default(c).auto_arp_tables ELSE TRUE
auto_gw_arp(c) ==
    IF Has(topology_default(c), "auto_gw_arp")
    THEN topology_default(c).auto_gw_arp ELSE TRUE

\* the links of a host, in the order of self.links: its interfaces
host_links(h, ls) == SelectSeq(ls, LAMBDA l : l[1] = h \/ l[2] = h)
\* the interface a node has on its link to peer: a host has one interface
intf(node, peer, hs) == IF node \in DOMAIN hs THEN h_iface(node) ELSE <<node, peer>>
\* h_iface.link: the two interfaces of the first link of the host
iface_link(h, hs, ls) ==
    [intf1 |-> intf(host_links(h, ls)[1][1], host_links(h, ls)[1][2], hs),
     intf2 |-> intf(host_links(h, ls)[1][2], host_links(h, ls)[1][1], hs)]

\* the host's own interface taken for the switch's
sw_iface_own(h, link) == h_iface(h)

\* link.intf1 if link.intf1 != h_iface else link.intf2
sw_iface(h, link) == IF link.intf1 # h_iface(h) THEN link.intf1 ELSE link.intf2

\* ip_interface(address/prefix).network.compressed
Pow2(n) == IF n <= 0 THEN 1 ELSE 2 ^ n
network(ip, mask) == <<(ip \div Pow2(AddrBits - mask)) * Pow2(AddrBits - mask), mask>>

gw_cmds(c, tp, hs, ls, h) ==
    IF auto_gw_arp(c) /\ Has(tp.params[h], "defaultRoute")
    THEN <<<<"arp", h_iface(h),
             tp.params[h].defaultRoute[Len(tp.params[h].defaultRoute)],
             MacOf(sw_iface(h, iface_link(h, hs, ls)))>>>>
    ELSE <<>>

\* every host taken to be on the network of every other
same_subnet_any(tp, h, p) == TRUE

\* host_address.network.compressed == other_host_address.network.compressed
same_subnet(tp, h, p) ==
    network(tp.hosts_info[h].ip, tp.hosts_info[h].mask)
        = network(tp.hosts_info[p].ip, tp.hosts_info[p].mask)

arp_peers(tp, h) == SelectSeq(tp.hosts, LAMBDA p : p # h /\ same_subnet(tp, h, p))

arp_cmds(c, tp, h) ==
    IF auto_arp_tables(c)
    THEN [k \in 1..Len(arp_peers(tp, h)) |->
             <<"arp", h_iface(h), tp.hosts_info[arp_peers(tp, h)[k]].ip,
               tp.hosts_info[arp_peers(tp, h)[k]].mac>>]
    ELSE <<>>

\* the renew requested before the release
dhcp_cmds_renew_first(hs, h) ==
    IF Has(hs[h], "auto") /\ hs[h].auto
    THEN <<<<"dhclient &", h_iface(h)>>, <<"dhclient -r", h_iface(h)>>>>
    ELSE <<>>

\* if the host is configured to use dhcp: release, then renew
dhcp_cmds(hs, h) ==
    IF Has(hs[h], "auto") /\ hs[h].auto
    THEN <<<<"dhclient -r", h_iface(h)>>, <<"dhclient &", h_iface(h)>>>>
    ELSE <<>>

startup_cmds(hs, h) ==
    IF Has(hs[h], "commands")
    THEN [k \in 1..Len(hs[h].commands) |-> <<"sh", hs[h].commands[k]>>]
    ELSE <<>>

\* the commands the loop body issues on host h, in order
host_cmds(c, tp, hs, ls, h) ==
    gw_cmds(c, tp, hs, ls, h) \o arp_cmds(c, tp, h) \o dhcp_cmds(hs, h) \o startup_cmds(hs, h)

\* h = self.net.get(host_name), then h.cmd(...) for each command
host_calls(h, cmds) == <<<<"get", h>>>> \o [k \in 1..Len(cmds) |-> <<"cmd", h, cmds[k]>>]

\* The loop over self.topo.hosts() from host i on.  A host that has no link
\* has no interface: list(h.intfs.values())[0] raises IndexError.
RECURSIVE program_hosts_from(_, _, _, _, _, _)
program_hosts_from(c, tp, hs, ls, i, acc) ==
    IF i > Len(tp.hosts) THEN [error |-> "None", calls |-> acc]
    ELSE IF host_links(tp.hosts[i], ls) = <<>>
    THEN [error |-> "IndexError", calls |-> acc \o host_calls(tp.hosts[i], <<>>)]
    ELSE program_hosts_from(c, tp, hs, ls, i + 1,
             acc \o host_calls(tp.hosts[i], host_cmds(c, tp, hs, ls, tp.hosts[i])))

program_hosts(c, tp, hs, ls) == program_hosts_from(c, tp, hs, ls, 1, <<>>)

HostsProgrammed(r) ==
    /\ calls' = calls \o r.calls
    /\ Finish("program_hosts", r.error)

ProgramHosts ==
    /\ pc = "program_hosts"
    /\ phases' = Append(phases, "ProvisioningHosts")
    /\ HostsProgrammed(program_hosts(conf, topo, hosts, links))
    /\ UNCHANGED <<raw, conf, cli_enabled, empty_p4, modules, hosts, switches, links, compilers,
                   topo, net, controllers, again, objects>>

(***************************************************************************)
(* AppRunner.program_switches                                              *)
(***************************************************************************)
\* the command file the controller cannot apply
configure_fails(params) == params.cli_input = "bad-commands.txt"
conf_path(params) == IF Has(params, "cli_input") THEN params.cli_input ELSE "None"

\* the body of the loop for the record of switch sw
program_switch(sw, params) ==
    IF ~Has(params.controller_module, "kwargs")
    THEN [error |-> "KeyError", calls |-> <<>>, controllers |-> <<>>]
    ELSE IF ~Has(params, "cli_input")
    THEN [error |-> "None",
          calls |-> <<<<"controller", sw, conf_path(params), params.controller_module>>>>,
          controllers |-> <<sw>>]
    ELSE IF configure_fails(params)
    THEN [error |-> "SwitchConfigurationError",
          calls |-> <<<<"controller", sw, conf_path(params), params.controller_module>>,
                      <<"configure", sw>>>>,
          controllers |-> <<>>]
    ELSE [error |-> "None",
          calls |-> <<<<"controller", sw, conf_path(params), params.controller_module>>,
                      <<"configure", sw>>>>,
          controllers |-> <<sw>>]

RECURSIVE program_switches_from(_, _, _)
RECURSIVE program_switches_next(_, _, _, _)
\* the loop going on to the next switch after an exception
program_switches_next_continues(sw, i, acc, r) ==
    program_switches_from(sw, i + 1,
        [error |-> "None", calls |-> acc.calls \o r.calls,
         controllers |-> acc.controllers \o r.controllers])

\* the loop after the body has run for switch i: an exception ends it
program_switches_next(sw, i, acc, r) ==
    IF r.error # "None"
    THEN [error |-> r.error, calls |-> acc.calls \o r.calls, controllers |-> acc.controllers]
    ELSE program_switches_from(sw, i + 1,
             [error |-> "None", calls |-> acc.calls \o r.calls,
              controllers |-> acc.controllers \o r.controllers])

program_switches_from(sw, i, acc) ==
    IF i > Len(sw) THEN acc
    ELSE program_switches_next(sw, i, acc, program_switch(sw[i].name, sw[i].params))

program_switches(sw) ==
    program_switches_from(sw, 1, [error |-> "None", calls |-> <<>>, controllers |-> <<>>])

SwitchesProgrammed(r) ==
    /\ calls' = calls \o r.calls
    /\ controllers' = r.controllers
    /\ Finish("program_switches", r.error)

ProgramSwitches ==
    /\ pc = "program_switches"
    /\ phases' = Append(phases, "ProvisioningSwitches")
    /\ SwitchesProgrammed(program_switches(switches))
    /\ UNCHANGED <<raw, conf, cli_enabled, empty_p4, modules, hosts, switches, links, compilers,
                   topo, net, again, objects>>

(***************************************************************************)
(* AppRunner.exec_scripts, the CLI and the stop of the network             *)
(***************************************************************************)
\* AppRunner defines no attribute "logger"
has_logger == FALSE

script_calls(scripts) == [k \in 1..Len(scripts) |-> <<"script", scripts[k].cmd>>]

\* exec_scripts: [error, calls]
exec_scripts(c) ==
    IF ~Has(c, "exec_scripts") THEN [error |-> "None", calls |-> <<>>]
    ELSE IF Len(c.exec_scripts) > 0 /\ ~has_logger
    THEN [error |-> "AttributeError", calls |-> <<>>]
    ELSE [error |-> "None", calls |-> script_calls(c.exec_scripts)]

\* the test left out: the CLI is entered in every run
cli_requested_always(c, arg) == TRUE

\* if self.cli_enabled or (self.conf.get('cli', False))
cli_requested(c, arg) == arg \/ (Has(c, "cli") /\ c.cli)

ScriptsExecuted(r) ==
    /\ calls' = calls \o r.calls
    /\ error' = r.error
    /\ pc' = IF r.error # "None" THEN "failed"
             ELSE IF cli_requested(conf, cli_enabled) THEN following("exec_scripts")
             ELSE "done"

ExecScripts ==
    /\ pc = "exec_scripts"
    /\ phases' = Append(phases, "RunningScripts")
    /\ ScriptsExecuted(exec_scripts(conf))
    /\ UNCHANGED <<raw, conf, cli_enabled, empty_p4, modules, hosts, switches, links, compilers,
                   topo, net, controllers, again, objects>>

DoNetCli ==
    /\ pc = "do_net_cli"
    /\ phases' = Append(phases, "InteractiveSession")
    /\ calls' = Append(calls, <<"cli">>)
    /\ Finish("do_net_cli", "None")
    /\ UNCHANGED <<raw, conf, cli_enabled, empty_p4, modules, hosts, switches, links, compilers,
                   topo, net, controllers, again, objects>>

NetStop ==
    /\ pc = "net_stop"
    /\ phases' = Append(phases, "Teardown")
    /\ calls' = Append(calls, <<"stop">>)
    /\ net' = "stopped"
    /\ Finish("net_stop", "None")
    /\ UNCHANGED <<raw, conf, cli_enabled, empty_p4, modules, hosts, switches, links, compilers,
                   topo, controllers, again, objects>>

(***************************************************************************)
(* The program: AppRunner(conf_file, ...) and then run_app().              *)
(***************************************************************************)
ScriptNames == <<"a.sh", "b.sh", "c.sh", "d.sh">>
Scripts(n) == [k \in 1..n |-> [cmd |-> ScriptNames[k], reboot_run |-> FALSE]]

RunConfs ==
    {Conf(Topology(SwitchesMap(f), ls)) :
        f \in SeqsUpTo(RunParams, MaxRunSwitches), ls \in RunLinks}

\* the configurations that vary the hosts and the per-topology default bag
HostConfs ==
    {Conf(Put(Topology(SwitchesMap(<<EmptyDict>>), ls), "default", d)) :
        ls \in RunLinks, d \in RunDefaults}
    \cup {Conf(Put(Topology3(SwitchesMap(<<EmptyDict>>), ls), "default", d)) :
             ls \in RunLinks3, d \in RunDefaults}

\* the module sections a configuration may give
ModuleSections ==
    {[options |-> [log_enabled |-> FALSE]],
     [module_name |-> "my_module", object_name |-> "MyModule"],
     [module_name |-> "my_module", object_name |-> "MyModule",
      options |-> [log_enabled |-> FALSE]]}
BaseConf == Conf(Topology(SwitchesMap(<<[cli_input |-> "s-commands.txt"]>>),
                          <<<<"h1", "s1">>, <<"s1", "h2">>>>))
ModuleConfs ==
    {Put(BaseConf, key, sec) :
        key \in {"compiler_module", "controller_module"}, sec \in ModuleSections}

\* the configurations run with the empty program, and one without topology
EmptyRunParams == {EmptyDict, [program |-> "a.p4"], [program |-> "bad.p4"]}
EmptyConfs ==
    {Conf(Topology(SwitchesMap(f), <<<<"h1", "s1">>, <<"s1", "h2">>>>)) :
        f \in SeqsUpTo(EmptyRunParams, MaxRunSwitches)}
NoTopologyConf == [program |-> "p.p4"]

Init ==
    \/ \E c \in ModuleConfs, arg \in BOOLEAN : Start(c, arg)
    \/ \E c \in EmptyConfs, arg \in BOOLEAN : StartWith(c, arg, TRUE)
    \/ \E arg, empty \in BOOLEAN : StartWith(NoTopologyConf, arg, empty)
    \/ \E c \in RunConfs, arg \in BOOLEAN :
           \/ Start(c, arg)
           \/ Start(Put(c, "cli", TRUE), arg)
           \/ \E n \in 0..MaxScripts : Start(Put(c, "exec_scripts", Scripts(n)), arg)
    \/ \E c \in HostConfs, arg \in BOOLEAN : Start(c, arg)

Next ==
    \/ Construct
    \/ CompileP4
    \/ CreateNetwork
    \/ NetStart
    \/ ProgramHosts
    \/ ProgramSwitches
    \/ ExecScripts
    \/ DoNetCli
    \/ NetStop

Spec == Init /\ [][Next]_vars

(***************************************************************************)
(* Resolution: the claims on parse_switches and parse_links.               *)
(***************************************************************************)
RawSwitches == raw.topology.switches
RawParams(i) == RawSwitches[i].params
RawOpts(i) == IF Has(RawParams(i), "opts") THEN RawParams(i).opts ELSE EmptyDict
Resolution == pc # "init" /\ Has(raw, "topology")
\* __init__ has returned
Constructed == pc # "init" /\ ~(pc = "failed" /\ phases = <<>>)
Opts(i) == switches[i].params.opts

\* C1: after parse_switches has resolved a switches map, no two distinct
\* switches have the same thrift_port and no two have the same grpc_port.
C1_PortsUnique ==
    Constructed =>
        \A i, j \in DOMAIN switches :
            i # j => /\ Opts(i).thrift_port # Opts(j).thrift_port
                     /\ Opts(i).grpc_port # Opts(j).grpc_port

\* C2: when the first of two switches sets only an explicit thrift port p
\* above the counter and the second sets no port, resolution gives the first
\* (p, 9559) and the second (p + 1, 9560).
C2_Scenario ==
    /\ Has(raw, "topology")
    /\ Len(RawSwitches) = 2
    /\ DOMAIN RawParams(1) = {"opts"}
    /\ DOMAIN RawOpts(1) = {"thrift_port"}
    /\ RawOpts(1).thrift_port > next_thrift_port0
    /\ RawParams(2) = EmptyDict

C2_ExplicitThriftJumps ==
    (pc # "init" /\ C2_Scenario) =>
        /\ Constructed
        /\ Opts(1).thrift_port = RawOpts(1).thrift_port
        /\ Opts(1).grpc_port = next_grpc_port0
        /\ Opts(2).thrift_port = RawOpts(1).thrift_port + 1
        /\ Opts(2).grpc_port = next_grpc_port0 + 1

\* C3: when no switch specifies any port, resolution succeeds and the k-th
\* switch in declaration order (k = 0, 1, ...) receives thrift_port 9090 + k
\* and grpc_port 9559 + k.
NoPortSpecified ==
    \A i \in DOMAIN RawSwitches :
        ~Has(RawOpts(i), "thrift_port") /\ ~Has(RawOpts(i), "grpc_port")

\* the failures of resolution that have nothing to do with ports
OtherFailure == error \in {"ComponentLoadError", "AssertionError", "Exception"}

C3_SequentialPorts ==
    (Resolution /\ NoPortSpecified /\ ~OtherFailure) =>
        /\ Constructed
        /\ \A i \in DOMAIN switches :
               /\ Opts(i).thrift_port = next_thrift_port0 + (i - 1)
               /\ Opts(i).grpc_port = next_grpc_port0 + (i - 1)

\* C7: resolving the same raw configuration again, on the same topology
\* object, yields resolved switch and link records equal to the first ones.
C7_ReresolveEqual ==
    \A n \in DOMAIN again :
        /\ again[n].error = "None"
        /\ again[n].switches = switches
        /\ again[n].links = links

\* C8: for a switch whose override sets only some fields of opts, resolution
\* succeeds, every field the override sets keeps the override's value, and
\* grpc_port/thrift_port, pcap_dump, pcap_dir and log_enabled, where the
\* override does not set them, are present with the default's value; the
\* top-level program and cpu_port keep the default when not overridden.
DefaultOptKeys == {"pcap_dump", "pcap_dir", "log_enabled"}

C8_OptsFieldwiseMerge ==
    (Resolution /\ ~OtherFailure) =>
        /\ Constructed
        /\ \A i \in DOMAIN switches :
               /\ \A k \in DOMAIN RawOpts(i) : Opts(i)[k] = RawOpts(i)[k]
               /\ \A k \in DefaultOptKeys \ DOMAIN RawOpts(i) :
                      Has(Opts(i), k) /\ Opts(i)[k] = switch_default(raw).opts[k]
               /\ Has(Opts(i), "thrift_port") /\ Has(Opts(i), "grpc_port")
               /\ ~Has(RawParams(i), "program") =>
                      switches[i].params.program = raw.program
               /\ ~Has(RawParams(i), "cpu_port") => switches[i].params.cpu_port

\* C9: in every resolved link each field of the link's own bag has the bag's
\* value; each of weight, bw, delay, loss, max_queue_size the bag does not
\* set has the per-topology default's value (weight 1, the others None, when
\* the topology gives none); and no other link's bag shows in it.
RawLinksOf == raw.topology.links
RawBag(i) == IF Len(RawLinksOf[i]) > 2 THEN RawLinksOf[i][3] ELSE EmptyDict
RawDefault == IF Has(raw.topology, "default") THEN raw.topology.default ELSE EmptyDict
LinkKeys == {"weight", "bw", "delay", "loss", "max_queue_size"}
BuiltinDefault(k) == IF k = "weight" THEN Num(1) ELSE None

C9_LinkMerge ==
    Constructed =>
        /\ Len(links) = Len(RawLinksOf)
        /\ \A i \in DOMAIN links :
               /\ links[i][1] = RawLinksOf[i][1]
               /\ links[i][2] = RawLinksOf[i][2]
               /\ DOMAIN links[i][3] = DOMAIN RawBag(i) \cup DOMAIN RawDefault \cup LinkKeys
               /\ \A k \in DOMAIN links[i][3] :
                      links[i][3][k] =
                          IF Has(RawBag(i), k) THEN RawBag(i)[k]
                          ELSE IF Has(RawDefault, k) THEN RawDefault[k]
                          ELSE BuiltinDefault(k)

\* a bag overrides bw, another link has no bag, and the topology gives a
\* default bw and no default weight
C9_Witness ==
    /\ Constructed
    /\ Len(links) = 2
    /\ Has(RawBag(1), "bw") /\ Has(RawDefault, "bw")
    /\ RawBag(1).bw # RawDefault.bw
    /\ links[1][3].bw = RawBag(1).bw
    /\ Len(RawLinksOf[2]) = 2
    /\ links[2][3].bw = RawDefault.bw
    /\ links[2][3].weight = Num(1)

(***************************************************************************)
(* The run: the claims on __init__, compile_p4 and run_app.                *)
(***************************************************************************)
CallsOf(op) == {k \in DOMAIN calls : calls[k][1] = op}

\* C4: if any link has both endpoints in the declared host set, in either
\* order, construction fails with an error and the topology builder, the
\* network and its start are never invoked; when no link has, parse_links
\* raises nothing and resolves every link.
HostToHost(l) == l[1] \in DOMAIN raw.topology.hosts /\ l[2] \in DOMAIN raw.topology.hosts
HasHostToHost ==
    Has(raw, "topology") /\ \E i \in DOMAIN raw.topology.links : HostToHost(raw.topology.links[i])

C4_HostLinkRejected ==
    pc # "init" =>
        IF HasHostToHost
        THEN /\ pc = "failed" /\ error # "None"
             /\ phases = <<>>
             /\ CallsOf("topo") \cup CallsOf("net") \cup CallsOf("start") = {}
        ELSE /\ error # "AssertionError"
             /\ Constructed => Len(links) = Len(raw.topology.links)

C4_Witness ==
    /\ pc = "failed" /\ error = "AssertionError"
    /\ Len(raw.topology.links) = 2
    /\ ~HostToHost(raw.topology.links[1])
    /\ raw.topology.links[2][1] = "h2" /\ raw.topology.links[2][2] = "h1"

\* compile_p4 has returned without an exception
CompileFinished ==
    /\ Constructed
    /\ pc # "compile_p4"
    /\ ~(pc = "failed" /\ phases = <<"Compiling">>)

CanonicalPath(i) == realpath(switches[i].params.program)

\* C5: compile() is invoked at most once per canonical program path; when
\* compile_p4 has returned, it has been invoked exactly once for the path of
\* every switch, there is one compiler per distinct path, and switches that
\* share a canonical path have the same json_path.
C5_CompileOncePerPath ==
    /\ \A k1, k2 \in CallsOf("compile") : calls[k1][2] = calls[k2][2] => k1 = k2
    /\ CompileFinished =>
           /\ \A i \in DOMAIN switches :
                  Cardinality({k \in CallsOf("compile") : calls[k][2] = CanonicalPath(i)}) = 1
           /\ Cardinality(CallsOf("compile")) = Cardinality({CanonicalPath(i) : i \in DOMAIN switches})
           /\ Len(compilers) = Cardinality(CallsOf("compile"))
           /\ \A i, j \in DOMAIN switches :
                  CanonicalPath(i) = CanonicalPath(j) => Opts(i).json_path = Opts(j).json_path

\* two switches name one source in two ways, and a third path is compiled too
C5_Witness ==
    /\ CompileFinished
    /\ Len(switches) = 2
    /\ switches[1].params.program # switches[2].params.program
    /\ CanonicalPath(1) = CanonicalPath(2)
    /\ Len(compilers) = 1
    /\ Opts(1).json_path = Opts(2).json_path

\* C6: when compile_p4 has returned, the opts of every switch record hold a
\* json_path, the primary artifact of the compiler of that switch's program;
\* and every switch record handed to the topology builder holds a json_path.
C6_JsonPathAttached ==
    /\ CompileFinished =>
           \A i \in DOMAIN switches :
               /\ Has(Opts(i), "json_path")
               /\ \E n \in DOMAIN compilers :
                      /\ compilers[n].p4_filepath = CanonicalPath(i)
                      /\ Opts(i).json_path = get_json_out(compilers[n])
    /\ \A k \in CallsOf("topo") :
           \A i \in DOMAIN calls[k][3] : Has(calls[k][3][i].params.opts, "json_path")

C6_Witness ==
    /\ CallsOf("topo") # {}
    /\ Len(switches) = 2
    /\ CanonicalPath(1) # CanonicalPath(2)
    /\ \A i \in DOMAIN switches : Opts(i).json_path = <<CanonicalPath(i), "json">>

\* C10: the phases of a run are entered in the order Compiling,
\* BuildingTopology, StartingNetwork, ProvisioningHosts, ProvisioningSwitches,
\* RunningScripts, InteractiveSession, Teardown, none skipped and none
\* twice; the calls made to the collaborators follow the same order; a run
\* that ends without error has gone through the first six, and through the
\* interactive session and the teardown exactly when the CLI is requested.
PhaseOrder ==
    <<"Compiling", "BuildingTopology", "StartingNetwork", "ProvisioningHosts",
      "ProvisioningSwitches", "RunningScripts", "InteractiveSession", "Teardown">>

PhaseOfCall(call) ==
    CASE call[1] = "stop_all" -> 0
      [] call[1] = "compile" -> 1
      [] call[1] = "topo" -> 2
      [] call[1] \in {"net", "start"} -> 3
      [] call[1] \in {"get", "cmd"} -> 4
      [] call[1] \in {"controller", "configure"} -> 5
      [] call[1] = "script" -> 6
      [] call[1] = "cli" -> 7
      [] call[1] = "stop" -> 8

C10_PhaseOrder ==
    /\ Len(phases) <= Len(PhaseOrder)
    /\ \A i \in DOMAIN phases : phases[i] = PhaseOrder[i]
    /\ \A k1, k2 \in DOMAIN calls :
           k1 < k2 => PhaseOfCall(calls[k1]) <= PhaseOfCall(calls[k2])
    /\ \A k \in DOMAIN calls : PhaseOfCall(calls[k]) <= Len(phases)
    /\ pc = "done" =>
           phases = IF cli_requested(raw, cli_enabled) THEN PhaseOrder
                    ELSE SubSeq(PhaseOrder, 1, 6)

\* a run through all eight phases that provisioned a host and configured a switch
C10_Witness ==
    /\ pc = "done"
    /\ phases = PhaseOrder
    /\ CallsOf("cmd") # {} /\ CallsOf("configure") # {}
    /\ CallsOf("stop") # {}

\* the option bag the controller of switch i is constructed with
ControllerOf(i) == switches[i].params.controller_module

\* C19: for every resolved switch the controller's option bag is there,
\* its sw_name is the switch's name, and its thrift_port and grpc_port are
\* the thrift_port and grpc_port of the switch record's opts, explicit
\* overrides of the ports included.
C19_ControllerPorts ==
    Constructed =>
        \A i \in DOMAIN switches :
            /\ Has(ControllerOf(i), "kwargs")
            /\ {"sw_name", "thrift_port", "grpc_port"} \subseteq DOMAIN ControllerOf(i).kwargs
            /\ ControllerOf(i).kwargs.sw_name = switches[i].name
            /\ ControllerOf(i).kwargs.thrift_port = Opts(i).thrift_port
            /\ ControllerOf(i).kwargs.grpc_port = Opts(i).grpc_port

RecordObjects(i) == {objects.records[i][part] : part \in DOMAIN objects.records[i]}
GlobalObjects == {self_objects[part] : part \in DOMAIN self_objects}

\* C20: the dicts a resolved switch record is made of (the record, its opts,
\* its controller_module and the controller's option bag) are objects of
\* that record alone, after parse_switches and after compile_p4: no two
\* records share one and none is self.controller_module or its option bag;
\* and neither parse_switches nor compile_p4 assigns into
\* self.controller_module or its option bag.
C20_NoAliasing ==
    Constructed =>
        /\ Len(objects.records) = Len(switches)
        /\ \A i \in DOMAIN objects.records :
               /\ Cardinality(RecordObjects(i)) = 4
               /\ RecordObjects(i) \cap GlobalObjects = {}
               /\ \A j \in DOMAIN objects.records :
                      i # j => RecordObjects(i) \cap RecordObjects(j) = {}
        /\ objects.written \cap GlobalObjects = {}

\* two switches, one with its own opts and one with its own controller,
\* resolved and compiled
C20_Witness ==
    /\ CompileFinished
    /\ Len(switches) = 2
    /\ \E i \in 1..2 : Has(RawParams(i), "opts")
    /\ \E i \in 1..2 : Has(RawParams(i), "controller_module")
    /\ \A i \in 1..2 : objects.records[i].opts = <<"compiled", i, "opts">>
    /\ <<"record", 1, "opts">> \in objects.written

\* the switch gives a controller_module without an option bag of its own
BareControllerOverride(i) ==
    /\ Has(RawParams(i), "controller_module")
    /\ ~Has(RawParams(i).controller_module, "kwargs")

\* C21: a switch that overrides controller_module without giving an option
\* bag, or overrides switch_node, is resolved to a record whose component is
\* the one the override names and whose controller option bag is the
\* default one: sw_name, thrift_port, grpc_port and the log settings.
C21_OverrideKeepsOptions ==
    Constructed =>
        \A i \in DOMAIN switches :
            (BareControllerOverride(i) \/ Has(RawParams(i), "switch_node")) =>
                /\ BareControllerOverride(i) =>
                       ControllerOf(i).module =
                           [class |-> RawParams(i).controller_module.object_name]
                /\ Has(RawParams(i), "switch_node") =>
                       switches[i].params.switch_node =
                           [class |-> RawParams(i).switch_node.object_name]
                /\ Has(ControllerOf(i), "kwargs")
                /\ ControllerOf(i).kwargs =
                       [log_enabled |-> default_controller_kwargs.log_enabled,
                        log_dir |-> default_controller_kwargs.log_dir,
                        sw_name |-> switches[i].name,
                        thrift_port |-> Opts(i).thrift_port,
                        grpc_port |-> Opts(i).grpc_port]

\* C22: when the configuration has no topology section, construction fails
\* with an error before any collaborator is called: no stop_all on the
\* switch node, no compile, no topology and no network; with or without the
\* empty-program option.
C22_NoTopologyFailsClean ==
    (pc # "init" /\ ~Has(raw, "topology")) =>
        /\ pc = "failed" /\ error # "None"
        /\ phases = <<>>
        /\ calls = <<>>

(***************************************************************************)
(* The run: the claims on failures.                                        *)
(***************************************************************************)
LastCall == calls[Len(calls)]
CallsIn(ops) == {k \in DOMAIN calls : calls[k][1] \in ops}
\* the compile() calls made on a source that does not compile
FailedCompiles ==
    {k \in CallsOf("compile") : compile_fails([p4_filepath |-> calls[k][2]])}

\* C11: a compile() that fails is the last call the run makes: no further
\* program is compiled, the topology is not built and the network is not
\* started; a failure of the topology builder is followed by no call at all,
\* and after a failure of the network or of its start no host or switch is
\* provisioned, no script is run and the CLI is not entered.  The run has
\* ended with the failure, in the phase where it happened.
C11_FatalPhasesAbort ==
    /\ \A k \in FailedCompiles :
           k = Len(calls) /\ pc = "failed" /\ error = "CompilationError"
    /\ error = "CompilationError" =>
           /\ pc = "failed" /\ phases = SubSeq(PhaseOrder, 1, 1)
           /\ LastCall[1] = "compile"
           /\ CallsIn({"topo", "net", "start"}) = {}
           /\ net = "none"
    /\ error = "TopologyError" =>
           /\ pc = "failed" /\ phases = SubSeq(PhaseOrder, 1, 2)
           /\ LastCall[1] = "topo"
           /\ CallsIn({"net", "start"}) = {}
           /\ net = "none"
    /\ error = "NetworkError" =>
           /\ pc = "failed" /\ phases = SubSeq(PhaseOrder, 1, 3)
           /\ LastCall[1] \in {"net", "start"}
           /\ CallsIn({"cmd", "controller", "configure", "script", "cli", "stop"}) = {}
           /\ net # "started"

\* the first of two programs fails to compile: the second is never compiled
C11_Witness ==
    /\ error = "CompilationError"
    /\ Len(switches) = 2
    /\ CanonicalPath(1) = "/abs/bad.p4"
    /\ CanonicalPath(2) = "/abs/a.p4"
    /\ Cardinality(CallsOf("compile")) = 1
    /\ ~Has(Opts(2), "json_path")

ParamsOf(sw) == switches[CHOOSE i \in DOMAIN switches : switches[i].name = sw].params
\* the configure() calls made with a command file the controller cannot apply
FailedConfigures ==
    {k \in CallsOf("configure") : configure_fails(ParamsOf(calls[k][2]))}

\* C12: a configure() that fails is the last call the run makes: no later
\* switch gets a controller or is configured, no script is run and the CLI
\* is not entered; the run has ended with the failure in ProvisioningSwitches.
C12_ConfigureFailureAborts ==
    /\ \A k \in FailedConfigures :
           k = Len(calls) /\ pc = "failed" /\ error = "SwitchConfigurationError"
    /\ error = "SwitchConfigurationError" =>
           /\ pc = "failed" /\ phases = SubSeq(PhaseOrder, 1, 5)
           /\ LastCall[1] = "configure"
           /\ CallsIn({"script", "cli", "stop"}) = {}

\* the first of two switches cannot be configured; the second has a command
\* file too, scripts are configured and the CLI is requested
C12_Witness ==
    /\ error = "SwitchConfigurationError"
    /\ Len(switches) = 2
    /\ Has(switches[1].params, "cli_input")
    /\ configure_fails(switches[1].params)
    /\ Has(switches[2].params, "cli_input")
    /\ CallsOf("configure") = {Len(calls)}
    /\ Has(conf, "exec_scripts") /\ Len(conf.exec_scripts) > 0
    /\ cli_enabled

\* the phase has been entered and its statement of run_app is over
PhaseOver(n) == Len(phases) >= n
HostsOfTopo == Range(topo_hosts(raw.topology.hosts))
CmdsOn(h) == SelectSeq(calls, LAMBDA call : call[1] = "cmd" /\ call[2] = h)

\* C13: once ProvisioningHosts is over, every host of the topology has been
\* provisioned (the live host was fetched and the commands of the hosts that
\* have an interface were issued), whatever happened to another host, and
\* the run has not ended in that phase.
C13_HostsBestEffort ==
    PhaseOver(4) =>
        /\ ~(pc = "failed" /\ phases = SubSeq(PhaseOrder, 1, 4))
        /\ \A h \in HostsOfTopo :
               /\ <<"get", h>> \in Range(calls)
               /\ host_links(h, links) # <<>> =>
                      CmdsOn(h) = SelectSeq(host_calls(h, host_cmds(conf, topo, hosts, links, h)),
                                            LAMBDA call : call[1] = "cmd")

ScriptCalls == SelectSeq(calls, LAMBDA call : call[1] = "script")
RawScripts == IF Has(raw, "exec_scripts") THEN raw.exec_scripts ELSE <<>>

\* C14: once RunningScripts is over, every configured script has been run
\* exactly once, in declared order, and the run has not ended in that phase:
\* it is at the decision on the interactive session or beyond.
C14_ScriptsAllRun ==
    PhaseOver(6) =>
        /\ ScriptCalls = [k \in DOMAIN RawScripts |-> <<"script", RawScripts[k].cmd>>]
        /\ pc # "failed"

\* C15: the CLI is entered only when it is requested and only after
\* RunningScripts; once RunningScripts is over, a run in which the CLI is
\* requested is in the session or beyond it, and a run in which it is not
\* is done; when the session has returned and the run is done, the network
\* was stopped exactly once, by the last call of the run.
C15_CliIffRequested ==
    /\ CallsOf("cli") # {} => cli_requested(raw, cli_enabled) /\ PhaseOver(7)
    /\ CallsOf("stop") # {} => CallsOf("cli") # {}
    /\ Cardinality(CallsOf("cli")) <= 1 /\ Cardinality(CallsOf("stop")) <= 1
    /\ PhaseOver(6) =>
           IF cli_requested(raw, cli_enabled)
           THEN pc \in {"do_net_cli", "net_stop", "done"}
           ELSE pc = "done"
    /\ (pc = "done" /\ cli_requested(raw, cli_enabled)) =>
           /\ CallsOf("cli") # {}
           /\ CallsOf("stop") = {Len(calls)}
           /\ net = "stopped"

NamesOf(seq) == [k \in DOMAIN seq |-> seq[k][2]]
ConfigureCalls == SelectSeq(calls, LAMBDA call : call[1] = "configure")
ControllerCalls == SelectSeq(calls, LAMBDA call : call[1] = "controller")
SwitchesWithInput == SelectSeq(switches, LAMBDA s : Has(s.params, "cli_input"))
IsPrefix(a, b) == Len(a) <= Len(b) /\ a = SubSeq(b, 1, Len(a))

\* C18: configure() is invoked only for switches whose record has a
\* cli_input, at most once per switch and in declaration order; once
\* ProvisioningSwitches is over and no configure() has failed, it has been
\* invoked for every such switch, and a controller has been constructed and
\* recorded for every switch, in order: one entry of controllers per switch.
C18_ConfigureIffCliInput ==
    /\ IsPrefix(NamesOf(ConfigureCalls),
                [k \in DOMAIN SwitchesWithInput |-> SwitchesWithInput[k].name])
    /\ IsPrefix(NamesOf(ControllerCalls), [k \in DOMAIN switches |-> switches[k].name])
    /\ (PhaseOver(5) /\ FailedConfigures = {}) =>
           /\ Len(ConfigureCalls) = Len(SwitchesWithInput)
           /\ Len(ControllerCalls) = Len(switches)
           /\ controllers = [k \in DOMAIN switches |-> switches[k].name]

\* the program of switch i has no control-plane metadata / does not compile
Disabled(i) == p4info_disabled([p4_filepath |-> CanonicalPath(i)])
Uncompilable(i) == compile_fails([p4_filepath |-> CanonicalPath(i)])

\* C23: once Compiling is over, it has failed only if a program does not
\* compile: a program without control-plane metadata raises nothing.  When
\* compile_p4 has returned, every switch has its json_path, a switch whose
\* program has no control-plane metadata has no p4rt_path, and every other
\* switch has the p4rt_path of its program; the run goes on to the topology.
C23_P4InfoDisabledSkipped ==
    /\ (PhaseOver(1) /\ \A i \in DOMAIN switches : ~Uncompilable(i)) => CompileFinished
    /\ CompileFinished =>
           /\ pc # "failed" \/ PhaseOver(2)
           /\ \A i \in DOMAIN switches :
                  /\ Has(Opts(i), "json_path")
                  /\ Has(Opts(i), "p4rt_path") <=> ~Disabled(i)
                  /\ ~Disabled(i) => Opts(i).p4rt_path = <<CanonicalPath(i), "p4rt">>

\* the first of two programs has no control-plane metadata, the second has;
\* the topology has been built
C23_Witness ==
    /\ CallsOf("topo") # {}
    /\ Len(switches) = 2
    /\ Disabled(1) /\ ~Disabled(2)
    /\ Has(Opts(1), "json_path") /\ ~Has(Opts(1), "p4rt_path")
    /\ Has(Opts(2), "json_path") /\ Has(Opts(2), "p4rt_path")

(***************************************************************************)
(* The run: the claims on the commands issued on the hosts.                *)
(***************************************************************************)
\* the loop of program_hosts has gone through its body for host h: the host
\* was fetched, and then another host was, or the loop ended
Provisioned(h) ==
    \E k \in DOMAIN calls :
        /\ calls[k] = <<"get", h>>
        /\ \/ \E j \in DOMAIN calls : j > k /\ calls[j][1] = "get"
           \/ ~(pc = "failed" /\ phases = SubSeq(PhaseOrder, 1, 4))

ArpEnabled ==
    IF Has(RawDefault, "auto_arp_tables") THEN RawDefault.auto_arp_tables ELSE TRUE
GwArpEnabled ==
    IF Has(RawDefault, "auto_gw_arp") THEN RawDefault.auto_gw_arp ELSE TRUE

\* address/prefix of h and of p denote the same network: the prefix lengths
\* are equal and the addresses agree on the prefix
SameNetwork(h, p) ==
    /\ topo.hosts_info[h].mask = topo.hosts_info[p].mask
    /\ topo.hosts_info[h].ip \div (2 ^ (AddrBits - topo.hosts_info[h].mask))
           = topo.hosts_info[p].ip \div (2 ^ (AddrBits - topo.hosts_info[p].mask))

HostAddresses == {topo.hosts_info[h].ip : h \in HostsOfTopo}
\* the static neighbor entries installed on h: for a peer's address, and
\* for any other address (the gateway's)
ArpCalls(h) ==
    {k \in DOMAIN calls : calls[k][1] = "cmd" /\ calls[k][2] = h /\ calls[k][3][1] = "arp"}
PeerEntries(h) == {k \in ArpCalls(h) : calls[k][3][3] \in HostAddresses}
GwEntries(h) == {k \in ArpCalls(h) : calls[k][3][3] \notin HostAddresses}
PeerEntry(h, p) ==
    <<"cmd", h, <<"arp", h_iface(h), topo.hosts_info[p].ip, topo.hosts_info[p].mac>>>>

\* C16: a static neighbor entry for a peer p is installed on a host h only
\* if subnet-wide ARP programming is enabled (the default) and h and p are
\* on the same network, and it carries p's address and MAC; on every host h
\* that has been provisioned it is installed, once, for exactly those peers,
\* so between provisioned hosts the entries are symmetric; with the flag
\* disabled no peer entry is installed on any host.
C16_SubnetArp ==
    PhaseOver(4) =>
        \A h \in HostsOfTopo :
            /\ \A k \in PeerEntries(h) :
                   \E p \in HostsOfTopo \ {h} :
                       /\ calls[k] = PeerEntry(h, p)
                       /\ ArpEnabled /\ SameNetwork(h, p)
            /\ \A k1, k2 \in PeerEntries(h) : calls[k1] = calls[k2] => k1 = k2
            /\ Provisioned(h) =>
                   \A p \in HostsOfTopo \ {h} :
                       (PeerEntry(h, p) \in Range(calls)) <=> (ArpEnabled /\ SameNetwork(h, p))
            /\ ~ArpEnabled => PeerEntries(h) = {}

\* h1 and h2 are on one network and h3 on another: h1 and h2 have an entry
\* for each other, h3 has none and none is for h3
C16_Witness ==
    /\ PhaseOver(5)
    /\ HostsOfTopo = {"h1", "h2", "h3"}
    /\ \A h \in HostsOfTopo : Provisioned(h)
    /\ SameNetwork("h1", "h2") /\ ~SameNetwork("h1", "h3") /\ ~SameNetwork("h2", "h3")
    /\ PeerEntry("h1", "h2") \in Range(calls)
    /\ PeerEntry("h2", "h1") \in Range(calls)
    /\ PeerEntries("h3") = {}
    /\ Cardinality(PeerEntries("h1")) = 1 /\ Cardinality(PeerEntries("h2")) = 1

\* the node at the other end of the first link of h
FirstLinkOf(h) ==
    raw.topology.links[CHOOSE i \in DOMAIN raw.topology.links :
        /\ h \in {raw.topology.links[i][1], raw.topology.links[i][2]}
        /\ \A j \in 1..(i - 1) :
               h \notin {raw.topology.links[j][1], raw.topology.links[j][2]}]
PeerNode(h) == IF FirstLinkOf(h)[1] = h THEN FirstLinkOf(h)[2] ELSE FirstLinkOf(h)[1]
DeclaresRoute(h) == Has(topo.params[h], "defaultRoute")

\* C17: a static neighbor entry for the gateway is installed on a host only
\* if the host declares a default route and gateway-ARP programming is
\* enabled (the default); on every host that has been provisioned it is
\* installed exactly then, once and before any other command; it maps the
\* route's gateway address to the hardware address of the interface the
\* peer node has on the host's first link, never to the host's own.
C17_GatewayArp ==
    PhaseOver(4) =>
        \A h \in HostsOfTopo :
            /\ GwEntries(h) # {} => DeclaresRoute(h) /\ GwArpEnabled
            /\ Cardinality(GwEntries(h)) <= 1
            /\ Provisioned(h) => (GwEntries(h) # {} <=> (DeclaresRoute(h) /\ GwArpEnabled))
            /\ \A k \in GwEntries(h) :
                   /\ calls[k][3] = <<"arp", h_iface(h), topo.params[h].defaultRoute[2],
                                      MacOf(<<PeerNode(h), h>>)>>
                   /\ calls[k][3][4] # MacOf(h_iface(h))
                   /\ calls[k - 1] = <<"get", h>>

\* h2 is the second end of its link and declares a route: the entry names
\* the switch's interface; h1 is the first end of its link
C17_Witness ==
    /\ PhaseOver(5)
    /\ Provisioned("h1") /\ Provisioned("h2")
    /\ FirstLinkOf("h2")[2] = "h2" /\ FirstLinkOf("h1")[1] = "h1"
    /\ DeclaresRoute("h2")
    /\ \E k \in GwEntries("h2") : calls[k][3][4] = MacOf(<<"s1", "h2">>)
    /\ \E k \in GwEntries("h1") : calls[k][3][4] = MacOf(<<"s1", "h1">>)

\* the section of the configuration under key gives options and names no
\* object
OptionsOnly(key) ==
    /\ Has(raw, key)
    /\ Has(raw[key], "options")
    /\ ~Has(raw[key], "object_name")
DefaultModule(key) ==
    IF key = "compiler_module" THEN DEFAULT_COMPILER ELSE DEFAULT_CONTROLLER

\* C25: when the compiler_module or the controller_module section gives
\* options and names no object, construction succeeds and the module is
\* the built-in default with the given options.
C25_DefaultWithOptions ==
    \A key \in {"compiler_module", "controller_module"} :
        (pc # "init" /\ OptionsOnly(key)) =>
            /\ Constructed
            /\ modules[key] = [module |-> DefaultModule(key),
                                kwargs |-> raw[key].options]

\* the commands issued on host h, in order, and what each of them is
HostCmds(h) == [k \in DOMAIN CmdsOn(h) |-> CmdsOn(h)[k][3]]
Kind(cmd) ==
    CASE cmd[1] = "arp" /\ cmd[3] \notin HostAddresses -> 1
      [] cmd[1] = "arp" /\ cmd[3] \in HostAddresses -> 2
      [] cmd[1] = "dhclient -r" -> 3
      [] cmd[1] = "dhclient &" -> 4
      [] cmd[1] = "sh" -> 5
OfKind(h, n) == {k \in DOMAIN HostCmds(h) : Kind(HostCmds(h)[k]) = n}
RawHost(h) == raw.topology.hosts[h]
RawAuto(h) == Has(RawHost(h), "auto") /\ RawHost(h).auto
RawCommands(h) == IF Has(RawHost(h), "commands") THEN RawHost(h).commands ELSE <<>>
DeclaredCmds(h) == SelectSeq(HostCmds(h), LAMBDA cmd : cmd[1] = "sh")
\* the host fetched last before call k
FetchedAt(k) ==
    calls[CHOOSE g \in 1..k :
              /\ calls[g][1] = "get"
              /\ \A j \in (g + 1)..k : calls[j][1] # "get"][2]

C24_CommandOrder ==
    PhaseOver(4) =>
        /\ \A k \in CallsOf("cmd") : FetchedAt(k) = calls[k][2]
        /\ \A h \in HostsOfTopo :
               /\ \A k1, k2 \in DOMAIN HostCmds(h) :
                      k1 < k2 => Kind(HostCmds(h)[k1]) <= Kind(HostCmds(h)[k2])
               /\ \A k \in DOMAIN HostCmds(h) :
                      Kind(HostCmds(h)[k]) \in 1..4 => HostCmds(h)[k][2] = h_iface(h)
               /\ Cardinality(OfKind(h, 3)) <= 1 /\ Cardinality(OfKind(h, 4)) <= 1
               /\ \A k \in OfKind(h, 4) : k - 1 \in OfKind(h, 3)
               /\ OfKind(h, 3) # {} => RawAuto(h)
               /\ IsPrefix(DeclaredCmds(h),
                           [k \in DOMAIN RawCommands(h) |-> <<"sh", RawCommands(h)[k]>>])
               /\ Provisioned(h) =>
                      /\ RawAuto(h) => OfKind(h, 3) # {}
                      /\ \A k \in OfKind(h, 3) : k + 1 \in OfKind(h, 4)
                      /\ Len(DeclaredCmds(h)) = Len(RawCommands(h))

\* C24: the commands of a host are issued on the host fetched for them, in
\* the order gateway entry, peer entries, address release and renew,
\* declared commands; the release is there only if the host's address mode
\* is dynamic and, on a provisioned host, exactly then, with the renew right
\* after it; the declared commands are issued in declared order, all of
\* them on a provisioned host; every command that names an interface names
\* the host's first one; and program_hosts leaves the resolved host, switch
\* and link records as they are.
C24_HostProvisioning ==
    /\ []C24_CommandOrder
    /\ [][pc = "program_hosts" => UNCHANGED <<hosts, switches, links>>]_vars

\* three provisioned hosts: the third has a gateway entry, a peer entry, a
\* release and a renew, and its two declared commands; the first has no
\* release
C24_Witness ==
    /\ PhaseOver(5)
    /\ \A h \in HostsOfTopo : Provisioned(h)
    /\ "h3" \in HostsOfTopo
    /\ \A n \in 1..5 : OfKind("h3", n) # {}
    /\ Len(DeclaredCmds("h3")) = 2
    /\ OfKind("h1", 3) = {}

\* the run has failed after the network was started: while the hosts or
\* the switches were provisioned, or while the scripts were run
FailedAfterStart == pc = "failed" /\ Len(phases) \in 4..6
\* the run was given the CLI option, or its configuration sets "cli"
CliAsked == cli_enabled \/ (Has(raw, "cli") /\ raw.cli = TRUE)

\* C26: net.stop() is called only right after the CLI session has
\* returned, and only then is the network no longer started; a run that is
\* done without the CLI requested, and a run that failed while the hosts or
\* the switches were provisioned or the scripts were run, has ended with
\* the network started and never stopped.
C26_StopOnlyAfterCli ==
    /\ \A k \in CallsOf("stop") : k > 1 /\ calls[k - 1] = <<"cli">>
    /\ net = "stopped" => CallsOf("stop") # {}
    /\ (pc = "done" /\ ~CliAsked) =>
           net = "started" /\ CallsOf("stop") = {} /\ CallsOf("cli") = {}
    /\ FailedAfterStart =>
           net = "started" /\ CallsOf("stop") = {} /\ CallsOf("cli") = {}

\* a run with the CLI requested that failed in its scripts: the network is
\* left started
C26_Witness ==
    /\ pc = "failed" /\ Len(phases) = 6
    /\ CliAsked
    /\ CallsOf("start") # {}
    /\ net = "started"

====
